---- MODULE Spec2Model ----
(***************************************************************************)
(* McpClientSession (src/mcp_bridge/mcp_clients/session.py): a client      *)
(* session over an inbound and an outbound message stream.                 *)
(*                                                                         *)
(* The class extends mcp.shared.session.BaseSession, which is not part of  *)
(* the sources.  What it inherits (send_request, send_notification, the    *)
(* receive loop that resolves responses by id, RequestResponder.respond,   *)
(* close) is modelled from the specification's Correlator and lifecycle    *)
(* sections; everything McpClientSession defines is modelled from its      *)
(* code.  The constructor binds incoming_messages to the very read stream  *)
(* the base class receives from (lines 46-48), so the inherited receive    *)
(* loop and _consume_messages are two receivers of one stream: each        *)
(* inbound item is taken by exactly one of them, whichever is scheduled.   *)
(* An item the peer has sent and no receiver has taken yet is still the    *)
(* peer's to the session, so sending and taking an item are one step.      *)
(***************************************************************************)
EXTENDS Integers, Sequences, FiniteSets, TLC

\* ------------------------------------------------------------------ bounds
\* inputs over the run: outbound calls and notifications, peer requests,
\* noise from the peer (notifications, malformed items, duplicate and unknown
\* responses), and the end of the inbound stream
MaxInputs == 3

\* --------------------------------------------------------------- constants
\* mcp.shared.version.SUPPORTED_PROTOCOL_VERSIONS, imported at line 9
SUPPORTED_PROTOCOL_VERSIONS == {"2024-11-05", "2025-03-26"}

\* the versions a peer may answer the handshake with
PeerVersions == {"2025-03-26", "1999-01-01"}

\* the two tasks __aenter__ starts
Tasks == {"receive_loop", "consume_messages"}

\* types.CreateMessageRequest, the one request _received_request services
CreateMessage == "sampling/createMessage"

\* the requests a peer may initiate
PeerMethods == {CreateMessage, "roots/list"}

\* the results the sampling handler may return
HandlerResults == {"R1", "R2"}

VARIABLES
    entered,      \* __aenter__ has run
    closed,       \* the session has been torn down (close())
    task,         \* per task: where it is and the peer request it is servicing
    readStream,   \* "open", or "over": its iteration ends or fails from now on
    outbound,     \* envelopes written to the write stream, in order
    request_id,   \* the next request id (BaseSession._request_id)
    pending,      \* the pending-request table: ids awaiting a response
    calls,        \* per request id issued: the caller's call
    peerReq,      \* per peer request id: its method and what became of it
    peerAnswered, \* request ids the peer has answered
    noise,        \* noise items the peer has sent
    lost,         \* responses to pending requests that _consume_messages took,
                  \* each with the number of malformed items skipped before it
    stray         \* ids of the responses taken that had no pending entry

vars == <<entered, closed, task, readStream, outbound, request_id, pending,
          calls, peerReq, peerAnswered, noise, lost, stray>>

\* ----------------------------------------------------------------- envelopes
\* a result payload: its result type, the request id it answers and, for an
\* InitializeResult, the protocolVersion it carries
Payload(type, rid, v) == [type |-> type, rid |-> rid, v |-> v]

NoPayload == Payload("", -1, "")

\* a message on the inbound stream
Item(kind, id, payload) == [kind |-> kind, id |-> id, payload |-> payload]

\* a message on the outbound stream; "by" is the call that wrote it
Envelope(kind, id, method, body, by) ==
    [kind |-> kind, id |-> id, method |-> method, body |-> body, by |-> by]

RequestEnvelope(id, method) == Envelope("request", id, method, "", id)

Indices(s) == 1..Len(s)

IssuedIds == 0..(request_id - 1)

\* the notifications written by the fire-and-forget operations
Notified ==
    Cardinality({k \in Indices(outbound) :
                    outbound[k].kind = "notification" /\ outbound[k].by = -1})

InputsUsed ==
    request_id + Len(peerReq) + noise + Notified + (IF readStream = "open" THEN 0 ELSE 1)

\* ----------------------------------------------------------- session state
InitCalls == {i \in IssuedIds : calls[i].method = "initialize"}

\* The class keeps no state field; the specification's SessionState is read
\* off what initialize() and close() have done.
State ==
    IF closed THEN "Closed"
    ELSE IF \E i \in InitCalls : calls[i].outcome = "version" THEN "Failed"
    ELSE IF \E i \in InitCalls : calls[i].stage = "returned" THEN "Ready"
    ELSE IF InitCalls # {} THEN "Initializing"
    ELSE "Created"

\* -------------------------------------------------------------------- Init
Init ==
    /\ entered = FALSE
    /\ closed = FALSE
    /\ task = [t \in Tasks |->
                 [pc |-> "unstarted", req |-> 0, cause |-> "none", exits |-> 0, skipped |-> 0]]
    /\ readStream = "open"
    /\ outbound = <<>>
    /\ request_id = 0
    /\ pending = {}
    /\ calls = <<>>
    /\ peerReq = <<>>
    /\ peerAnswered = {}
    /\ noise = 0
    /\ lost = {}
    /\ stray = {}

\* ------------------------------------------------ outbound calls (facade)
\* the caller's side of one send_request: the operation, the wire method, the
\* result type it expects, where the caller is, how the call ended, the
\* result delivered, how often its slot was resolved, and the session state
\* the call was made in
Call(op, method, result_type) ==
    [op |-> op, method |-> method, result_type |-> result_type,
     stage |-> "awaiting", outcome |-> "none", result |-> NoPayload, n |-> 0,
     at |-> State]

SendRequest_SameId(op, method, result_type) ==
    /\ entered
    /\ ~closed
    /\ Len(outbound) < MaxInputs
    /\ calls' = (0 :> Call(op, method, result_type)) @@ calls
    /\ request_id' = 1
    /\ pending' = pending \cup {0}
    /\ outbound' = Append(outbound, RequestEnvelope(0, method))
    /\ UNCHANGED <<entered, closed, task, readStream, peerReq, peerAnswered,
                   noise, lost, stray>>

\* BaseSession.send_request up to its suspension: allocate the id, register
\* the pending slot, write the Request envelope.  The session is used inside
\* its context (after __aenter__); a write to the closed outbound stream
\* raises and sends nothing, so calls after teardown are left out.
SendRequest(op, method, result_type) ==
    /\ entered
    /\ ~closed
    /\ InputsUsed < MaxInputs
    /\ request_id' = request_id + 1
    /\ calls' = calls @@ (request_id :> Call(op, method, result_type))
    /\ pending' = pending \cup {request_id}
    /\ outbound' = Append(outbound, RequestEnvelope(request_id, method))
    /\ UNCHANGED <<entered, closed, task, readStream, peerReq, peerAnswered,
                   noise, lost,
                   stray>>

\* lines 104-123: initialize() sends the initialize request, whatever the
\* session has done before
initialize == SendRequest("initialize", "initialize", "InitializeResult")

ListPromptsRequest_CopyPaste == "tools/list"

\* line 245
ListPromptsRequest == "prompts/list"

list_prompts == SendRequest("list_prompts", ListPromptsRequest, "ListPromptsResult")

list_tools == SendRequest("list_tools", "tools/list", "ListToolsResult")

\* lines 139-148
send_ping == SendRequest("send_ping", "ping", "EmptyResult")

\* lines 226-238
call_tool == SendRequest("call_tool", "tools/call", "CallToolResult")

\* BaseSession.send_notification: the Notification envelope is written; no id
\* is allocated and nothing is awaited
SendNotification(method) ==
    /\ entered
    /\ ~closed
    /\ InputsUsed < MaxInputs
    /\ outbound' = Append(outbound, Envelope("notification", -1, method, "", -1))
    /\ UNCHANGED <<entered, closed, task, readStream, request_id, pending,
                   calls, peerReq, peerAnswered, noise, lost,
                   stray>>

\* lines 150-165
send_progress_notification == SendNotification("notifications/progress")

send_roots_list_changed_Awaited ==
    SendRequest("send_roots_list_changed", "notifications/roots/list_changed", "EmptyResult")

\* lines 293-301
send_roots_list_changed == SendNotification("notifications/roots/list_changed")

\* --------------------------------------------------------------- lifecycle
TaskGroup_Detached == {"receive_loop"}

\* the tasks __aenter__ puts in self._task_group: the inherited receive loop
\* (super().__aenter__()) and _consume_messages (start_soon)
TaskGroup == {"receive_loop", "consume_messages"}

Running(t) == task[t].pc \in {"waiting", "handling"}

Exited(t, cause) ==
    [pc |-> "exited", req |-> 0, cause |-> cause, exits |-> task[t].exits + 1,
     skipped |-> task[t].skipped]

\* __aenter__: both loops run from here on
Enter ==
    /\ ~entered
    /\ ~closed
    /\ entered' = TRUE
    /\ task' = [t \in Tasks |-> [task[t] EXCEPT !.pc = "waiting"]]
    /\ UNCHANGED <<closed, readStream, outbound, request_id, pending, calls,
                   peerReq, peerAnswered, noise, lost,
                   stray>>

\* Session teardown: the state becomes Closed, the task group is cancelled
\* (a request being serviced is abandoned with its task), and failAll
\* resolves every pending request to a SessionClosed failure.  `self` is the
\* task whose exit triggers it ("none" for close()), leaving by `cause`.
TearDown(self, cause) ==
    /\ closed' = TRUE
    /\ task' = [t \in Tasks |->
                  IF t = self THEN Exited(t, cause)
                  ELSE IF t \in TaskGroup /\ Running(t) THEN Exited(t, "cancelled")
                  ELSE task[t]]
    /\ peerReq' = [i \in DOMAIN peerReq |->
                     IF /\ peerReq[i].status = "running"
                        /\ \E t \in TaskGroup \ {self} : task[t].pc = "handling" /\ task[t].req = i
                     THEN [peerReq[i] EXCEPT !.status = "cancelled"]
                     ELSE peerReq[i]]
    /\ pending' = {}
    /\ calls' = [i \in DOMAIN calls |->
                   IF i \in pending
                   THEN [calls[i] EXCEPT !.stage = "raised", !.outcome = "closed", !.n = @ + 1]
                   ELSE calls[i]]

close ==
    /\ entered
    /\ ~closed
    /\ TearDown("none", "none")
    /\ UNCHANGED <<entered, readStream, outbound, request_id, peerAnswered,
                   noise, lost,
                   stray>>

\* ------------------------------------------------------------- initialize
\* line 125: the returned protocolVersion is checked against the supported set
VersionOk_Unchecked(v) == TRUE

VersionOk(v) == v \in SUPPORTED_PROTOCOL_VERSIONS

\* lines 131-135: the notification initialize() sends once the check passed
InitializedNotification_Twice(i) ==
    <<Envelope("notification", -1, "notifications/initialized", "", i),
      Envelope("notification", -1, "notifications/initialized", "", i)>>

InitializedNotification(i) ==
    <<Envelope("notification", -1, "notifications/initialized", "", i)>>

\* initialize() resumed with the peer's result (lines 125-137): raise on an
\* unsupported version, else send the notification and return the result
InitializeContinue(i) ==
    /\ i \in InitCalls
    /\ calls[i].stage = "resolved"
    /\ IF ~VersionOk(calls[i].result.v)
       THEN /\ calls' = [calls EXCEPT ![i].stage = "raised", ![i].outcome = "version"]
            /\ UNCHANGED outbound
       ELSE IF closed
       THEN /\ calls' = [calls EXCEPT ![i].stage = "raised", ![i].outcome = "write_failed"]
            /\ UNCHANGED outbound
       ELSE /\ calls' = [calls EXCEPT ![i].stage = "returned", ![i].outcome = "ok"]
            /\ outbound' = outbound \o InitializedNotification(i)
    /\ UNCHANGED <<entered, closed, task, readStream, request_id, pending,
                   peerReq, peerAnswered, noise, lost,
                   stray>>

\* -------------------------------------------------------------------- peer
\* the requests written to the peer
SentRequests == {k \in Indices(outbound) : outbound[k].kind = "request"}

\* the result type the protocol defines for each request method
PeerResultType(method) ==
    CASE method = "initialize" -> "InitializeResult"
      [] method = "prompts/list" -> "ListPromptsResult"
      [] method = "tools/list" -> "ListToolsResult"
      [] method = "tools/call" -> "CallToolResult"
      [] method = "ping" -> "EmptyResult"
      [] OTHER -> ""

\* the results the peer may answer request outbound[k] with (with any
\* protocolVersion, for initialize)
ResultsTo(k) ==
    LET e == outbound[k]
    IN  {Item("response", e.id, Payload(PeerResultType(e.method), e.id, v)) :
            v \in IF e.method = "initialize" THEN PeerVersions ELSE {""}}

\* what the peer may answer request outbound[k] with: a result or an error
AnswersTo(k) == ResultsTo(k) \cup {Item("error", outbound[k].id, NoPayload)}

\* an id no request of the session carries
UnknownId == MaxInputs

NoiseKinds == {"notification", "exception", "garbage"}

\* The items the peer may send next: an answer to any request not yet
\* answered, in any order; and, as inputs of their own, a result repeated,
\* a response to an unknown id, a notification, an Exception item, an item
\* that cannot be wrapped, or a request of its own.
Offers ==
    IF readStream # "open" \/ closed THEN {}
    ELSE LET first == {a \in UNION {AnswersTo(k) : k \in SentRequests} :
                          a.id \notin peerAnswered}
             again == {a \in UNION {ResultsTo(k) : k \in SentRequests} :
                          a.id \in peerAnswered}
         IN  IF InputsUsed >= MaxInputs THEN first
             ELSE first \cup again
                  \cup {Item("response", UnknownId, Payload("", UnknownId, ""))}
                  \cup {Item(kind, -1, NoPayload) : kind \in NoiseKinds}
                  \cup {Item("request", Len(peerReq) + 1, Payload(m, -1, "")) : m \in PeerMethods}

IsNoise(item) ==
    \/ item.kind \in NoiseKinds
    \/ item.kind \in {"response", "error"} /\ (item.id \in peerAnswered \/ item.id \notin IssuedIds)

\* the peer's books once `item` is sent
PeerSends(item) ==
    /\ peerAnswered' = IF item.kind \in {"response", "error"} /\ item.id \in IssuedIds
                       THEN peerAnswered \cup {item.id}
                       ELSE peerAnswered
    /\ noise' = IF IsNoise(item) THEN noise + 1 ELSE noise

\* ------------------------------------------------------ inbound dispatch
ClientResponse_Empty(i, R) == Envelope("response", i, "", "", -1)

\* lines 309-310: the handler's result R, wrapped as a ClientResult and sent
\* back through the responder of peer request i
ClientResponse(i, R) == Envelope("response", i, "", R, -1)

PeerRequestRecord(item, status) ==
    [method |-> item.payload.type, status |-> status, result |-> ""]

\* _received_request (lines 303-310): a CreateMessageRequest is handed to
\* sample(), which suspends the calling task in the handler; any other
\* request returns at once, with nothing written
ReceivedRequest(t, item) ==
    IF item.payload.type = CreateMessage
    THEN /\ task' = [task EXCEPT ![t].pc = "handling", ![t].req = item.id]
         /\ peerReq' = Append(peerReq, PeerRequestRecord(item, "running"))
    ELSE /\ peerReq' = Append(peerReq, PeerRequestRecord(item, "ignored"))
         /\ UNCHANGED task

HandlerReturn_Twice(t, R) ==
    /\ task[t].pc = "handling"
    /\ outbound' = outbound \o <<ClientResponse(task[t].req, R), ClientResponse(task[t].req, R)>>
    /\ peerReq' = [peerReq EXCEPT ![task[t].req].status = "answered",
                                  ![task[t].req].result = R]
    /\ task' = [task EXCEPT ![t].pc = "waiting", ![t].req = 0]
    /\ UNCHANGED <<entered, closed, readStream, request_id, pending, calls,
                   peerAnswered, noise, lost, stray>>

\* sample() returns R (lines 308-310, 312-316): the result is sent back for
\* the request's id and the loop takes its next item
HandlerReturn(t, R) ==
    /\ task[t].pc = "handling"
    /\ outbound' = Append(outbound, ClientResponse(task[t].req, R))
    /\ peerReq' = [peerReq EXCEPT ![task[t].req].status = "answered",
                                  ![task[t].req].result = R]
    /\ task' = [task EXCEPT ![t].pc = "waiting", ![t].req = 0]
    /\ UNCHANGED <<entered, closed, readStream, request_id, pending, calls,
                   peerAnswered, noise, lost,
                   stray>>

\* sample() raises: _received_request writes nothing and lets the error out;
\* the loop logs it (line 86) and takes its next item
HandlerRaise(t) ==
    /\ task[t].pc = "handling"
    /\ peerReq' = [peerReq EXCEPT ![task[t].req].status = "raised"]
    /\ task' = [task EXCEPT ![t].pc = "waiting", ![t].req = 0]
    /\ UNCHANGED <<entered, closed, readStream, outbound, request_id, pending,
                   calls, peerAnswered, noise, lost,
                   stray>>

\* ---------------------------------------------------------- consumer loops
\* wrap_message, as far as the branches of lines 79-93 tell its results
\* apart: it raises on an item it cannot wrap, passes an Exception through,
\* gives a peer request a `request` attribute and anything else a `root`
WrapMessage(item) ==
    CASE item.kind = "garbage" -> "raises"
      [] item.kind = "exception" -> "exception"
      [] item.kind = "request" -> "request"
      [] OTHER -> "root"

\* lines 79-80 and 97-98: a malformed item is logged and the loop goes on
OnMalformed_Break(t) == [Exited(t, "message") EXCEPT !.skipped = @ + 1]

OnMalformed(t) == [task[t] EXCEPT !.skipped = @ + 1]

\* the malformed items skipped so far
Skipped == task["receive_loop"].skipped + task["consume_messages"].skipped

\* the caller's call after its slot received `item`: an error fails the
\* call; a result returns it, or resumes initialize() with it
Delivered(c, item) ==
    IF item.kind = "error"
    THEN [c EXCEPT !.stage = "raised", !.outcome = "rpc_error", !.n = @ + 1]
    ELSE [c EXCEPT !.stage = IF c.op = "initialize" THEN "resolved" ELSE "returned",
                   !.outcome = IF c.op = "initialize" THEN "none" ELSE "ok",
                   !.result = item.payload, !.n = @ + 1]

Resolve_FailsAll(item) ==
    IF item.id \in pending
    THEN /\ pending' = IF item.kind = "error" THEN {} ELSE pending \ {item.id}
         /\ calls' = [i \in DOMAIN calls |->
                        IF i = item.id \/ (item.kind = "error" /\ i \in pending)
                        THEN Delivered(calls[i], item)
                        ELSE calls[i]]
    ELSE UNCHANGED <<pending, calls>>

\* Correlator.resolve: the pending entry of the item's id is removed and the
\* result delivered to its caller; an id with no entry is discarded
Resolve(item) ==
    IF item.id \in pending
    THEN /\ pending' = pending \ {item.id}
         /\ calls' = [calls EXCEPT ![item.id] = Delivered(calls[item.id], item)]
    ELSE UNCHANGED <<pending, calls>>

\* the responses without a pending entry, once `item` is taken
Stray(item) ==
    IF item.kind \in {"response", "error"} /\ item.id \notin pending
    THEN stray \cup {item.id}
    ELSE stray

\* lines 87-93: anything else is logged and the loop goes on
OnLogged_Break(t) == Exited(t, "message")

OnLogged(t) == task[t]

\* one iteration of the inherited receive loop, taking `item`
receive_loop(item) ==
    LET t == "receive_loop"
    IN  /\ task[t].pc = "waiting"
        /\ item \in Offers
        /\ PeerSends(item)
        /\ CASE item.kind \in {"response", "error"} ->
                  /\ Resolve(item)
                  /\ UNCHANGED <<task, peerReq>>
             [] item.kind = "request" ->
                  /\ ReceivedRequest(t, item)
                  /\ UNCHANGED <<pending, calls>>
             [] item.kind \in {"exception", "garbage"} ->
                  /\ task' = [task EXCEPT ![t] = OnMalformed(t)]
                  /\ UNCHANGED <<pending, calls, peerReq>>
             [] OTHER -> UNCHANGED <<task, peerReq, pending, calls>>
        /\ stray' = Stray(item)
        /\ UNCHANGED <<entered, closed, readStream, outbound, request_id, lost>>

\* one iteration of _consume_messages (lines 74-98), taking `item`
consume_messages(item) ==
    LET t == "consume_messages"
        message == WrapMessage(item)
    IN  /\ task[t].pc = "waiting"
        /\ item \in Offers
        /\ PeerSends(item)
        /\ CASE message \in {"raises", "exception"} ->
                  /\ task' = [task EXCEPT ![t] = OnMalformed(t)]
                  /\ UNCHANGED <<peerReq, lost>>
             [] message = "request" ->
                  /\ ReceivedRequest(t, item)
                  /\ UNCHANGED lost
             [] OTHER ->
                  /\ lost' = IF item.kind \in {"response", "error"} /\ item.id \in pending
                             THEN lost \cup {[id |-> item.id, after |-> Skipped]}
                             ELSE lost
                  /\ task' = [task EXCEPT ![t] = OnLogged(t)]
                  /\ UNCHANGED peerReq
        /\ stray' = Stray(item)
        /\ UNCHANGED <<entered, closed, readStream, outbound, request_id,
                       pending, calls>>

\* how the iteration over a stream that is over leaves the loop: the stream
\* reports closure, or the iteration itself raises
ExitCauses == {"stream_closed", "stream_error"}

\* the receive loop leaves on stream closure or failure; its exit triggers
\* teardown
receive_loop_exit ==
    /\ task["receive_loop"].pc = "waiting"
    /\ readStream # "open"
    /\ TearDown("receive_loop", "stream_over")
    /\ UNCHANGED <<entered, readStream, outbound, request_id, peerAnswered,
                   noise, lost,
                   stray>>

\* _consume_messages leaves: the iteration ends or raises ClosedResourceError
\* (lines 99-100), or raises something else (lines 101-102); nothing else is
\* done on the way out
consume_messages_exit(cause) ==
    /\ task["consume_messages"].pc = "waiting"
    /\ readStream # "open"
    /\ task' = [task EXCEPT !["consume_messages"] = Exited("consume_messages", cause)]
    /\ UNCHANGED <<entered, closed, readStream, outbound, request_id, pending,
                   calls, peerReq, peerAnswered, noise, lost,
                   stray>>

\* the inbound stream is over: closed by the peer, or broken
StreamEnds ==
    /\ readStream = "open"
    /\ ~closed
    /\ InputsUsed < MaxInputs
    /\ readStream' = "over"
    /\ UNCHANGED <<entered, closed, task, outbound, request_id, pending, calls,
                   peerReq, peerAnswered, noise, lost,
                   stray>>

\* ------------------------------------------------------------ specification
Next ==
    \/ Enter
    \/ close
    \/ initialize
    \/ \E i \in IssuedIds : InitializeContinue(i)
    \/ list_prompts
    \/ list_tools
    \/ \E item \in Offers : receive_loop(item)
    \/ \E item \in Offers : consume_messages(item)
    \/ receive_loop_exit
    \/ \E cause \in ExitCauses : consume_messages_exit(cause)
    \/ \E t \in Tasks, R \in HandlerResults : HandlerReturn(t, R)
    \/ \E t \in Tasks : HandlerRaise(t)
    \/ StreamEnds

Spec == Init /\ [][Next]_vars

\* The rest of the facade against a peer that only answers: the handshake,
\* send_ping, call_tool and the two notification operations, with each
\* request answered at most once, by a result or an error, in any order.
Answers == {a \in Offers : a.kind \in {"response", "error"} /\ a.id \notin peerAnswered}

FacadeNext ==
    \/ Enter
    \/ close
    \/ initialize
    \/ \E i \in IssuedIds : InitializeContinue(i)
    \/ send_ping
    \/ call_tool
    \/ send_progress_notification
    \/ send_roots_list_changed
    \/ \E item \in Answers : receive_loop(item)
    \/ \E item \in Answers : consume_messages(item)
    \/ receive_loop_exit
    \/ \E cause \in ExitCauses : consume_messages_exit(cause)
    \/ StreamEnds

FacadeSpec == Init /\ [][FacadeNext]_vars

\* ------------------------------------------------------------------ claims
\* the envelopes of `kinds` written for id i
Written(kinds, i) == {k \in Indices(outbound) : outbound[k].kind \in kinds /\ outbound[k].id = i}

\* the notifications/initialized envelopes written by initialize call i
InitializedBy(i) ==
    {k \in Indices(outbound) : /\ outbound[k].kind = "notification"
                               /\ outbound[k].method = "notifications/initialized"
                               /\ outbound[k].by = i}

\* C1: a call made while the session is Ready that has returned, returned
\* the payload of the response carrying its own request id, of the result
\* type its operation asks for - never the payload of another request's
\* response, whatever the order the responses arrive in.
C1_OwnResult ==
    \A i \in IssuedIds :
        (calls[i].at = "Ready" /\ calls[i].stage = "returned")
            => /\ calls[i].result.rid = i
               /\ calls[i].result.type = calls[i].result_type

\* tools/list then prompts/list sent while Ready, and the peer has answered
\* the later one first: prompts/list has its own result while tools/list is
\* still unanswered
C1_Witness ==
    \E i, j \in IssuedIds :
        /\ i < j
        /\ calls[i].op = "list_tools" /\ calls[i].at = "Ready"
        /\ calls[i].stage = "awaiting" /\ i \notin peerAnswered
        /\ calls[j].op = "list_prompts" /\ calls[j].at = "Ready"
        /\ calls[j].stage = "returned"
        /\ calls[j].result = Payload("ListPromptsResult", j, "")

\* C2: once the session is closed the pending-request table is empty, the
\* consumer loop has stopped, no caller is left awaiting, every call has
\* been resolved exactly once, and a call that failed as SessionClosed was
\* resolved by nothing else.
C2_CloseFailsPending ==
    /\ \A i \in IssuedIds :
          /\ calls[i].n <= 1
          /\ calls[i].stage = "awaiting" <=> i \in pending
          /\ calls[i].outcome = "closed" => (closed /\ calls[i].stage = "raised" /\ calls[i].n = 1)
    /\ closed =>
          /\ pending = {}
          /\ ~Running("consume_messages")
          /\ \A i \in IssuedIds : calls[i].stage # "awaiting" /\ calls[i].n = 1

\* close() with two requests outstanding: both failed as SessionClosed, and
\* the consumer loop was cancelled
C2_Witness ==
    /\ closed
    /\ task["consume_messages"].cause = "cancelled"
    /\ task["receive_loop"].cause = "cancelled"
    /\ Cardinality({i \in IssuedIds : calls[i].outcome = "closed"}) >= 2

\* C3: a malformed item does not end the loop that takes it, and a response
\* to a pending request that is taken after a malformed item was skipped
\* resolves that request.
C3_MalformedThenResolved ==
    /\ \A t \in Tasks : task[t].cause # "message"
    /\ \A l \in lost : l.after = 0

\* C4: no request is written to the peer by a call made once the session has
\* Failed on an unsupported protocolVersion.
C4_NoCallAfterFailed ==
    \A k \in SentRequests : calls[outbound[k].id].at # "Failed"

\* C5: a sampling request the handler returned R for has exactly one success
\* response in the outbound stream that carries its id, and that response
\* carries R.
C5_SamplingAnswered ==
    \A i \in DOMAIN peerReq :
        peerReq[i].status = "answered"
            => /\ peerReq[i].method = CreateMessage
               /\ peerReq[i].result \in HandlerResults
               /\ Cardinality(Written({"response"}, i)) = 1
               /\ \A k \in Written({"response"}, i) : outbound[k].body = peerReq[i].result

\* the second of two peer requests is a sampling request, answered with R2
C5_Witness ==
    /\ Len(peerReq) = 2
    /\ peerReq[2].status = "answered"
    /\ peerReq[2].result = "R2"
    /\ \E k \in Indices(outbound) : outbound[k] = Envelope("response", 2, "", "R2", -1)

\* C6: a sampling request whose handler raised has an error response for its
\* id in the outbound stream.
C6_HandlerErrorAnswered ==
    \A i \in DOMAIN peerReq :
        peerReq[i].status = "raised" => Written({"response", "error"}, i) # {}

\* C7: a peer request that is not a create-message request, once dispatched,
\* has an error response for its id in the outbound stream.
C7_UnhandledAnswered ==
    \A i \in DOMAIN peerReq :
        (peerReq[i].method # CreateMessage /\ peerReq[i].status = "ignored")
            => Written({"response", "error"}, i) # {}

\* C8: initialize() has sent its notifications/initialized exactly when it
\* has returned; a call that has returned wrote its request first, received
\* the result for its own id, found the protocolVersion supported, and then
\* wrote exactly one notification; and the session is Ready only through
\* such a call.
C8_HandshakeOrder ==
    /\ \A i \in InitCalls :
          /\ calls[i].stage # "returned" => InitializedBy(i) = {}
          /\ calls[i].stage = "returned" =>
                /\ calls[i].result.rid = i
                /\ calls[i].result.v \in SUPPORTED_PROTOCOL_VERSIONS
                /\ Cardinality(InitializedBy(i)) = 1
                /\ \A n \in InitializedBy(i) :
                      \E k \in Written({"request"}, i) :
                          k < n /\ outbound[k].method = "initialize"
    /\ State = "Ready" => \E i \in InitCalls : calls[i].stage = "returned"

\* the handshake done: the request, then the one notification, and Ready
C8_Witness ==
    /\ State = "Ready"
    /\ Len(outbound) = 2
    /\ outbound[1] = Envelope("request", 0, "initialize", "", 0)
    /\ outbound[2] = Envelope("notification", -1, "notifications/initialized", "", 0)
    /\ calls[0].stage = "returned"

\* C9: every initialize request written to the peer comes from a call made
\* in state Created, so that at most one is ever written.
C9_InitializeOnlyInCreated ==
    /\ \A k \in SentRequests :
          outbound[k].method = "initialize" => calls[outbound[k].id].at = "Created"
    /\ Cardinality({k \in SentRequests : outbound[k].method = "initialize"}) <= 1

\* what C10 says of _consume_messages, with the exits it may take left open
ConsumerLifetime(causes) ==
    LET c == task["consume_messages"]
    IN  /\ entered <=> c.pc # "unstarted"
        /\ (\E i \in InitCalls : calls[i].stage \in {"resolved", "returned"}) => c.pc # "unstarted"
        /\ (State = "Ready" /\ readStream = "open") => c.pc \in {"waiting", "handling"}
        /\ c.exits <= 1
        /\ c.pc = "exited" <=> c.exits = 1
        /\ c.pc = "exited" => c.cause \in causes

C11_FailureIsOwn ==
    [][\A i \in pending :
          calls'[i].outcome = "rpc_error"
              => /\ pending' = pending \ {i}
                 /\ \A j \in IssuedIds \ {i} : calls'[j] = calls[j]
                 /\ State' = State]_vars

\* call_tool has failed on the peer's error while a ping sent before it is
\* still pending, in a session that is still Ready
C11_Witness ==
    \E i, j \in IssuedIds :
        /\ j < i
        /\ calls[i].op = "call_tool" /\ calls[i].outcome = "rpc_error"
        /\ calls[j].op = "send_ping" /\ calls[j].stage = "awaiting" /\ j \in pending
        /\ State = "Ready"

\* C12: every Response or ResponseError the consumer loop takes for a pending
\* request resolves that request: none is taken and left unresolved.
C12_RoutedByKind == lost = {}

\* C13: the consumer loop is never suspended in a capability handler: while
\* the handler of a peer request runs, the loop that dispatched it is at its
\* stream, taking the items that arrive after the request.
C13_LoopNotBlocked ==
    \A i \in DOMAIN peerReq :
        peerReq[i].status = "running"
            => ~(task["consume_messages"].pc = "handling" /\ task["consume_messages"].req = i)

\* C14: once the consumer loop has left on the end or the failure of the
\* inbound stream, the session is torn down: it is closed and no request is
\* left pending.
C14_ExitTearsDown ==
    task["consume_messages"].cause \in ExitCauses => (closed /\ pending = {})

\* C15: a consumer loop that left on an error of the stream's iteration has
\* left the session Failed, and one that left on the stream's closure has not
\* made it Failed.
C15_ExitsDistinguished ==
    /\ task["consume_messages"].cause = "stream_error" => State = "Failed"
    /\ (task["consume_messages"].cause = "stream_closed" /\ State = "Failed")
          => \E i \in InitCalls : calls[i].outcome = "version"

\* C16: a step that takes a response whose id has no pending entry resolves
\* no caller, leaves the pending-request table and the session state as they
\* were, and leaves both loops where they were.
C16_StrayDiscarded ==
    [][stray' # stray
          => /\ pending' = pending
             /\ calls' = calls
             /\ State' = State
             /\ task' = task]_vars

\* a duplicate of the response that resolved request 0 and a response with
\* an unknown id were both discarded: the call has its one result and
\* _consume_messages is still at its stream
C16_Witness ==
    /\ stray = {0, UnknownId}
    /\ calls[0].stage = "returned" /\ calls[0].n = 1
    /\ pending = {}
    /\ task["consume_messages"].pc = "waiting"
    /\ ~closed

FireAndForget == {"notifications/progress", "notifications/roots/list_changed"}

\* C18: a step in which send_progress_notification or send_roots_list_changed
\* writes to the outbound stream writes exactly one envelope, a notification,
\* allocates no request id, leaves the pending-request table and every call
\* as they were, and is complete: the operation awaits nothing.
C18_FireAndForget ==
    [][(/\ Len(outbound') > Len(outbound)
        /\ outbound'[Len(outbound')].method \in FireAndForget)
          => /\ outbound' = Append(outbound, outbound'[Len(outbound')])
             /\ outbound'[Len(outbound')].kind = "notification"
             /\ request_id' = request_id
             /\ pending' = pending
             /\ calls' = calls]_vars

\* both notifications written while a ping is pending: still one id
\* allocated, still one pending entry, and nothing has been received
C18_Witness ==
    /\ Len(outbound) = 3
    /\ outbound[1] = RequestEnvelope(0, "ping")
    /\ outbound[2] = Envelope("notification", -1, "notifications/progress", "", -1)
    /\ outbound[3] = Envelope("notification", -1, "notifications/roots/list_changed", "", -1)
    /\ request_id = 1
    /\ pending = {0}
    /\ peerAnswered = {}

\* C19: the outbound stream holds at most one response or error envelope for
\* each peer request id, and none for an id the peer did not send a request
\* with.
C19_AtMostOneResponse ==
    /\ \A i \in DOMAIN peerReq : Cardinality(Written({"response", "error"}, i)) <= 1
    /\ \A k \in Indices(outbound) :
          outbound[k].kind \in {"response", "error"} => outbound[k].id \in DOMAIN peerReq

\* three sampling requests, handled by the two loops side by side: the
\* handler of the first raised, the third was answered before the second,
\* and the stream holds one response for each of the two answered
C19_Witness ==
    /\ Len(peerReq) = 3
    /\ peerReq[1].status = "raised"
    /\ peerReq[2].status = "answered"
    /\ peerReq[3].status = "answered"
    /\ Len(outbound) = 2
    /\ outbound[1].kind = "response" /\ outbound[1].id = 3
    /\ outbound[2].kind = "response" /\ outbound[2].id = 2

\* C20: a notifications/initialized envelope is in the outbound stream only
\* for an initialize call that has received the result of its own request,
\* with a supported protocolVersion; a call that has no result yet, whose
\* result names an unsupported version, or whose request failed, has none.
C20_InitializedOnlyAfterResult ==
    /\ \A k \in Indices(outbound) :
          outbound[k].method = "notifications/initialized" => outbound[k].by \in InitCalls
    /\ \A i \in InitCalls :
          /\ InitializedBy(i) # {}
                => /\ calls[i].n = 1
                   /\ calls[i].result = Payload("InitializeResult", i, calls[i].result.v)
                   /\ calls[i].result.v \in SUPPORTED_PROTOCOL_VERSIONS
          /\ calls[i].result.v \notin SUPPORTED_PROTOCOL_VERSIONS => InitializedBy(i) = {}
          /\ calls[i].outcome \in {"version", "rpc_error", "closed"} => InitializedBy(i) = {}

\* one initialize answered with an unsupported version, another with an
\* error, a third still waiting: no notification has been written
C20_Witness ==
    /\ \E i, j, k \in InitCalls :
          /\ calls[i].outcome = "version" /\ calls[i].result.v = "1999-01-01"
          /\ calls[j].outcome = "rpc_error"
          /\ calls[k].stage = "awaiting"
    /\ \A k \in Indices(outbound) : outbound[k].kind = "request"

====
